---------------------------- MODULE Spec2Model ----------------------------
(***************************************************************************)
(* The hunters of axelrod/strategies/hunter.py: seven strategies that read *)
(* their own history and the opponent's history and return a move.         *)
(***************************************************************************)
EXTENDS Integers, Sequences, FiniteSets

VARIABLES
    player,       \* the class of the acting player: which strategy is called
    selfHistory,  \* self.history
    opponent,     \* the opponent: [history, cooperations, defections]
    move          \* what the last call of strategy returned ("none" before any)

vars == <<player, selfHistory, opponent, move>>

C == "C"
D == "D"
Moves == {C, D}

Hunters == {"DefectorHunter", "CooperatorHunter", "AlternatorHunter",
            "CycleHunter", "EventualCycleHunter", "MathConstantHunter",
            "RandomHunter"}

(***************************************************************************)
(* Bounds of the model.                                                    *)
(***************************************************************************)
\* rounds of a match between any hunter and an arbitrary opponent
MaxRounds == 12
\* rounds of a match of the EventualCycleHunter (its window is 15 moves)
MaxEventualRounds == 16
\* length of the directly constructed histories of the RandomHunter
MaxRandomLen == 13
\* lengths of directly constructed histories, own and opponent's
MaxOwnLen == 7
MaxOppLen == 5
\* lengths of directly constructed histories for the calls of all seven
\* strategies: long own histories, short opponent histories
MaxTotalOwnLen == 11
MaxShortOppLen == 1

(***************************************************************************)
(* Python lists.                                                           *)
(***************************************************************************)
Min(a, b) == IF a <= b THEN a ELSE b
Max(a, b) == IF a >= b THEN a ELSE b

\* all lists over Moves of length lo..hi
Histories(lo, hi) == UNION {[1..n -> Moves] : n \in lo..hi}

\* h.count(m)
Count(h, m) == Cardinality({i \in 1..Len(h) : h[i] = m})

\* h[start:end] for 0 <= start, 0 <= end (Python clamps both to len(h))
Slice(h, start, end) == SubSeq(h, Min(start, Len(h)) + 1, Min(end, Len(h)))

\* h[-offset:] for offset > 0: the last offset elements, or all of h
LastN(h, offset) == SubSeq(h, Max(Len(h) - offset, 0) + 1, Len(h))

\* h[:-1]: all but the last element
ButLast(h) == SubSeq(h, 1, Len(h) - 1)

\* list(itertools.islice(itertools.cycle(block), 0, n)) for a non-empty block
CycleList(block, n) == [k \in 1..n |-> block[((k - 1) % Len(block)) + 1]]

\* a player object as the strategies read it: the history and the two counts
PlayerOf(h) == [history |-> h, cooperations |-> Count(h, C), defections |-> Count(h, D)]

\* no own history handed to the RandomHunter is longer than this
MaxRandomHunterLen == Max(MaxRounds, Max(MaxTotalOwnLen, MaxRandomLen))

(***************************************************************************)
(* Python floats: IEEE 754 binary64 with round-to-nearest, ties-to-even.   *)
(* A float is [sign, exp, sig]: sig is the significand's Precision bits,   *)
(* most significant first, and the value is (-1)^sign * 0.sig * 2^exp,     *)
(* with sig[1] = 1 unless the value is zero.  The quotients and            *)
(* differences of the hunters lie between 2^-64 and 2, far inside the      *)
(* normal range, so exponent overflow and subnormals are not modelled.     *)
(***************************************************************************)
Precision == 53

Zeros(n) == [k \in 1..n |-> 0]

FZero == [sign |-> 0, exp |-> 0, sig |-> Zeros(Precision)]

IsZero(x) == x.sig = Zeros(Precision)

\* bits + 1 for a bit string that is not all ones
Increment(bits) ==
    LET j == CHOOSE i \in 1..Len(bits) :
                 bits[i] = 0 /\ \A k \in (i + 1)..Len(bits) : bits[k] = 1
    IN  [i \in 1..Len(bits) |-> IF i < j THEN bits[i] ELSE IF i = j THEN 1 ELSE 0]

\* The float nearest to 0.bits * 2^exp (plus a nonzero tail below bits when
\* sticky), for bits[1] = 1: round to nearest, ties to even.
RoundToNearest(sign, exp, bits, sticky) ==
    LET n     == Len(bits)
        kept  == [i \in 1..Precision |-> IF i <= n THEN bits[i] ELSE 0]
        half  == n > Precision /\ bits[Precision + 1] = 1
        below == sticky \/ \E i \in (Precision + 2)..n : bits[i] = 1
        up    == half /\ (below \/ kept[Precision] = 1)
    IN  IF ~up THEN [sign |-> sign, exp |-> exp, sig |-> kept]
        ELSE IF \A i \in 1..Precision : kept[i] = 1
             THEN [sign |-> sign, exp |-> exp + 1,
                   sig |-> [i \in 1..Precision |-> IF i = 1 THEN 1 ELSE 0]]
             ELSE [sign |-> sign, exp |-> exp, sig |-> Increment(kept)]

\* a / b = (num / den) * 2^exp with 1/2 <= num / den < 1, for a, b > 0
RECURSIVE Normalize(_, _, _)
Normalize(a, b, e) ==
    IF a >= b THEN Normalize(a, 2 * b, e + 1)
    ELSE IF 2 * a < b THEN Normalize(2 * a, b, e - 1)
    ELSE [num |-> a, den |-> b, exp |-> e]

\* the next k bits of the binary expansion of r / den (r < den), and the
\* remainder left after them
RECURSIVE DivBits(_, _, _, _)
DivBits(r, den, k, acc) ==
    IF k = 0 THEN [bits |-> acc, rem |-> r]
    ELSE IF 2 * r >= den
         THEN DivBits(2 * r - den, den, k - 1, Append(acc, 1))
         ELSE DivBits(2 * r, den, k - 1, Append(acc, 0))

\* float(a) / float(b) for integers a >= 0, b > 0 that are exact as floats:
\* the quotient a / b correctly rounded.  0.5 * a / b is FDiv(a, 2 * b): the
\* product 0.5 * a is exact.
FDiv(a, b) ==
    IF a = 0 THEN FZero
    ELSE LET nz == Normalize(a, b, 0)
             q  == DivBits(nz.num, nz.den, Precision + 1, <<>>)
         IN  RoundToNearest(0, nz.exp, q.bits, q.rem # 0)

\* a < b for bit strings of one length, as binary numbers
BitsLess(a, b) ==
    \E i \in 1..Len(a) : a[i] < b[i] /\ \A k \in 1..(i - 1) : a[k] = b[k]

\* |x| < |y|
MagLess(x, y) ==
    IF IsZero(y) THEN FALSE
    ELSE IF IsZero(x) THEN TRUE
    ELSE x.exp < y.exp \/ (x.exp = y.exp /\ BitsLess(x.sig, y.sig))

\* a - b for bit strings of one length with a >= b: bits i+1.. are done in
\* acc, borrow is carried into bit i
RECURSIVE BitsSub(_, _, _, _, _)
BitsSub(a, b, i, borrow, acc) ==
    IF i = 0 THEN acc
    ELSE IF a[i] - b[i] - borrow < 0
         THEN BitsSub(a, b, i - 1, 1, <<a[i] - b[i] - borrow + 2>> \o acc)
         ELSE BitsSub(a, b, i - 1, 0, <<a[i] - b[i] - borrow>> \o acc)

\* |x| - |y| correctly rounded, for |x| >= |y|
MagSub(x, y) ==
    IF IsZero(y) THEN [x EXCEPT !.sign = 0]
    ELSE LET d    == x.exp - y.exp
             n    == Precision + d
             diff == BitsSub(x.sig \o Zeros(d), Zeros(d) \o y.sig, n, 0, <<>>)
         IN  IF diff = Zeros(n) THEN FZero
             ELSE LET lead == CHOOSE i \in 1..n :
                                  diff[i] = 1 /\ \A k \in 1..(i - 1) : diff[k] = 0
                  IN  RoundToNearest(0, x.exp - (lead - 1), SubSeq(diff, lead, n), FALSE)

\* x - y for floats x, y >= 0
FSub(x, y) ==
    IF MagLess(x, y) THEN [MagSub(y, x) EXCEPT !.sign = 1] ELSE MagSub(x, y)

\* abs(x)
FAbs(x) == [x EXCEPT !.sign = 0]

\* x < y
FLess(x, y) ==
    CASE x.sign = 0 /\ y.sign = 0 -> MagLess(x, y)
      [] x.sign = 1 /\ y.sign = 0 -> ~(IsZero(x) /\ IsZero(y))
      [] x.sign = 0 /\ y.sign = 1 -> FALSE
      [] OTHER                    -> MagLess(y, x)

(***************************************************************************)
(* The thresholds of the strategies.                                       *)
(***************************************************************************)
ConstantHunterMinLength == 4     \* len(self.history) >= 4
AlternatorMinLength == 6         \* len(self.history) >= 6
EventualMinLength == 10          \* len(opponent.history) < 10
EventualOffset == 15             \* detect_eventual_cycle(history, offset=15)
MathConstantMinLength == 8       \* n >= 8
RandomMinLength == 10            \* n > 10
RandomMinCount == 5              \* self.history[:-1].count('C') > 5

(***************************************************************************)
(* DefectorHunter, CooperatorHunter, AlternatorHunter                      *)
(***************************************************************************)
\* faulty variant: the length guard is > instead of >=
DefectorHunterStrategyStrict(history, opp) ==
    IF Len(history) > ConstantHunterMinLength /\ Len(opp.history) = opp.defections
    THEN D
    ELSE C

\* faulty variant: no length guard
DefectorHunterStrategyNoGuard(history, opp) ==
    IF Len(opp.history) = opp.defections THEN D ELSE C

\* faulty variant: only the opponent's last four moves are looked at
DefectorHunterStrategyRecent(history, opp) ==
    IF Len(history) >= ConstantHunterMinLength
       /\ \A i \in 1..Len(opp.history) :
              i > Len(opp.history) - ConstantHunterMinLength => opp.history[i] = D
    THEN D
    ELSE C

DefectorHunterStrategy(history, opp) ==
    IF Len(history) >= ConstantHunterMinLength /\ Len(opp.history) = opp.defections
    THEN D
    ELSE C

CooperatorHunterStrategy(history, opp) ==
    IF Len(history) >= ConstantHunterMinLength /\ Len(opp.history) = opp.cooperations
    THEN D
    ELSE C

\* faulty variant: only the opponent's last two moves are compared
AlternatorHunterStrategyLastPair(history, opp) ==
    LET oh == opp.history
    IN  IF Len(history) >= AlternatorMinLength
           /\ (Len(oh) >= 2 => oh[Len(oh) - 1] # oh[Len(oh)])
        THEN D
        ELSE C

AlternatorHunterStrategy(history, opp) ==
    LET oh == opp.history
    IN  IF Len(history) >= AlternatorMinLength
           /\ \A i \in 1..(Len(oh) - 1) : oh[i] # oh[i + 1]
        THEN D
        ELSE C

(***************************************************************************)
(* CycleHunter                                                             *)
(***************************************************************************)
\* faulty variant: the loop stops one period short, range(len(history) // 2 - 1)
RECURSIVE DetectCycleFromShort(_, _)
DetectCycleFromShort(history, i) ==
    IF i >= Len(history) \div 2 - 1 THEN [result |-> FALSE, period |-> 0]
    ELSE IF history = CycleList(SubSeq(history, 1, i + 1), Len(history))
         THEN [result |-> i # 0, period |-> i + 1]
         ELSE DetectCycleFromShort(history, i + 1)

\* faulty variant: a match at period 1 is reported as a cycle
RECURSIVE DetectCycleFromAnyPeriod(_, _)
DetectCycleFromAnyPeriod(history, i) ==
    IF i >= Len(history) \div 2 THEN [result |-> FALSE, period |-> 0]
    ELSE IF history = CycleList(SubSeq(history, 1, i + 1), Len(history))
         THEN [result |-> TRUE, period |-> i + 1]
         ELSE DetectCycleFromAnyPeriod(history, i + 1)

\* The loop of detect_cycle from index i on: what it returns, and the period
\* i + 1 at which it returned (0 when the loop ran out).
RECURSIVE DetectCycleFrom(_, _)
DetectCycleFrom(history, i) ==
    IF i >= Len(history) \div 2 THEN [result |-> FALSE, period |-> 0]
    ELSE IF history = CycleList(SubSeq(history, 1, i + 1), Len(history))
         THEN [result |-> i # 0, period |-> i + 1]
         ELSE DetectCycleFrom(history, i + 1)

DetectCycle(history) == DetectCycleFrom(history, 0).result

CycleHunterStrategy(history, opp) ==
    IF DetectCycle(opp.history) THEN D ELSE C

(***************************************************************************)
(* EventualCycleHunter                                                     *)
(***************************************************************************)
RECURSIVE EventualCycleFrom(_, _)
EventualCycleFrom(history_tail, i) ==
    IF i >= Len(history_tail) \div 2 THEN FALSE
    ELSE IF history_tail = CycleList(SubSeq(history_tail, 1, i + 1), Len(history_tail))
         THEN TRUE
         ELSE EventualCycleFrom(history_tail, i + 1)

\* faulty variant: the whole history is searched, not its tail
DetectEventualCycleWhole(history, offset) == EventualCycleFrom(history, 0)

DetectEventualCycle(history, offset) == EventualCycleFrom(LastN(history, offset), 0)

EventualCycleHunterStrategy(history, opp) ==
    IF Len(opp.history) < EventualMinLength THEN C
    ELSE IF Len(opp.history) = opp.cooperations THEN C
    ELSE IF DetectEventualCycle(opp.history, EventualOffset) THEN D
    ELSE C

(***************************************************************************)
(* MathConstantHunter                                                      *)
(***************************************************************************)
\* the float 0.2
OneFifth == FDiv(1, 5)

\* abs(x - y) < 0.2
RatiosClose(x, y) == FLess(FAbs(FSub(x, y)), OneFifth)

MathConstantHunterStrategy(history, opp) ==
    LET n == Len(history)
        start1 == 0           end1 == n \div 2
        start2 == n \div 4    end2 == (3 * n) \div 4
        start3 == n \div 2    end3 == n
        count1 == Count(Slice(opp.history, start1, end1), C)
                  + Count(Slice(history, start1, end1), C)
        count2 == Count(Slice(opp.history, start2, end2), C)
                  + Count(Slice(history, start2, end2), C)
        count3 == Count(Slice(opp.history, start3, end3), C)
                  + Count(Slice(history, start3, end3), C)
        ratio1 == FDiv(count1, 2 * (end1 - start1))
        ratio2 == FDiv(count2, 2 * (end2 - start2))
        ratio3 == FDiv(count3, 2 * (end3 - start3))
    IN  IF n >= MathConstantMinLength /\ opp.cooperations # 0 /\ opp.defections # 0
           /\ RatiosClose(ratio1, ratio2) /\ RatiosClose(ratio1, ratio3)
        THEN D
        ELSE C

(***************************************************************************)
(* RandomHunter                                                            *)
(***************************************************************************)
\* abs(1.0 * count / total - 0.5) < 0.25, computed in floats
ProbabilityNearHalf(count, total) ==
    FLess(FAbs(FSub(FDiv(count, total), FDiv(1, 2))), FDiv(1, 4))

\* ProbabilityNearHalf for every quotient a match of the model can form,
\* evaluated once
NearHalfTable ==
    [count \in 0..MaxRandomHunterLen, total \in 1..MaxRandomHunterLen |->
        ProbabilityNearHalf(count, total)]

\* opponent.history[i+1] raises IndexError for some i in range(n-1) at which
\* self.history[i] == m lets the comprehension read it
ReadsPastEnd(history, opp, m) ==
    \E i \in 0..(Len(history) - 2) :
        history[i + 1] = m /\ i + 1 >= Len(opp.history)

\* faulty variant: the opponent's move of the same round is read, not of the next
CountFollowedSameRound(history, opp, m) ==
    Cardinality({i \in 0..(Len(history) - 2) :
                    history[i + 1] = m /\ opp.history[i + 1] = m})

\* len([i for i in range(n-1) if self.history[i] == m and opponent.history[i+1] == m])
CountFollowed(history, opp, m) ==
    Cardinality({i \in 0..(Len(history) - 2) :
                    history[i + 1] = m /\ opp.history[i + 2] = m})

\* probabilities holds each quotient as <<count, total>>; its float is
\* FDiv(count, total)
RandomHunterStrategy(history, opp) ==
    LET n     == Len(history)
        useCC == Count(ButLast(history), C) > RandomMinCount
        useDD == Count(ButLast(history), D) > RandomMinCount
    IN  IF n > RandomMinLength
        THEN IF (useCC /\ ReadsPastEnd(history, opp, C))
                \/ (useDD /\ ReadsPastEnd(history, opp, D))
             THEN "IndexError"
             ELSE LET probabilities ==
                          (IF useCC
                           THEN << <<CountFollowed(history, opp, C), Count(ButLast(history), C)>> >>
                           ELSE <<>>)
                          \o
                          (IF useDD
                           THEN << <<CountFollowed(history, opp, D), Count(ButLast(history), D)>> >>
                           ELSE <<>>)
                  IN  IF Len(probabilities) > 0
                         /\ \A k \in 1..Len(probabilities) :
                                NearHalfTable[probabilities[k][1], probabilities[k][2]]
                      THEN D
                      ELSE C
        ELSE C

\* the strategy of each class
Strategy(h, history, opp) ==
    CASE h = "DefectorHunter"      -> DefectorHunterStrategy(history, opp)
      [] h = "CooperatorHunter"    -> CooperatorHunterStrategy(history, opp)
      [] h = "AlternatorHunter"    -> AlternatorHunterStrategy(history, opp)
      [] h = "CycleHunter"         -> CycleHunterStrategy(history, opp)
      [] h = "EventualCycleHunter" -> EventualCycleHunterStrategy(history, opp)
      [] h = "MathConstantHunter"  -> MathConstantHunterStrategy(history, opp)
      [] h = "RandomHunter"        -> RandomHunterStrategy(history, opp)

(***************************************************************************)
(* A match: both histories start empty; each round the player's strategy   *)
(* returns its move, the opponent plays any move, and the framework        *)
(* appends both and keeps the opponent's counts.                           *)
(***************************************************************************)
Record(opp, m) ==
    [history      |-> Append(opp.history, m),
     cooperations |-> opp.cooperations + (IF m = C THEN 1 ELSE 0),
     defections   |-> opp.defections + (IF m = D THEN 1 ELSE 0)]

\* one round in which the player's strategy returned s
Play(s, rounds) ==
    /\ Len(selfHistory) < rounds
    /\ s \in Moves
    /\ move' = s
    /\ selfHistory' = Append(selfHistory, s)
    /\ \E m \in Moves : opponent' = Record(opponent, m)
    /\ UNCHANGED player

MatchInit(hunters) ==
    /\ player \in hunters
    /\ selfHistory = <<>>
    /\ opponent = PlayerOf(<<>>)
    /\ move = "none"

Init == MatchInit(Hunters)

DefectorHunterRound ==
    /\ player = "DefectorHunter"
    /\ Play(DefectorHunterStrategy(selfHistory, opponent), MaxRounds)

CooperatorHunterRound ==
    /\ player = "CooperatorHunter"
    /\ Play(CooperatorHunterStrategy(selfHistory, opponent), MaxRounds)

AlternatorHunterRound ==
    /\ player = "AlternatorHunter"
    /\ Play(AlternatorHunterStrategy(selfHistory, opponent), MaxRounds)

CycleHunterRound ==
    /\ player = "CycleHunter"
    /\ Play(CycleHunterStrategy(selfHistory, opponent), MaxRounds)

EventualCycleHunterRound ==
    /\ player = "EventualCycleHunter"
    /\ Play(EventualCycleHunterStrategy(selfHistory, opponent), MaxRounds)

MathConstantHunterRound ==
    /\ player = "MathConstantHunter"
    /\ Play(MathConstantHunterStrategy(selfHistory, opponent), MaxRounds)

RandomHunterRound ==
    /\ player = "RandomHunter"
    /\ Play(RandomHunterStrategy(selfHistory, opponent), MaxRounds)

Next ==
    \/ DefectorHunterRound
    \/ CooperatorHunterRound
    \/ AlternatorHunterRound
    \/ CycleHunterRound
    \/ EventualCycleHunterRound
    \/ MathConstantHunterRound
    \/ RandomHunterRound

Spec == Init /\ [][Next]_vars

\* a long match of the EventualCycleHunter
InitEventual == MatchInit({"EventualCycleHunter"})

EventualCycleHunterLongRound ==
    /\ player = "EventualCycleHunter"
    /\ Play(EventualCycleHunterStrategy(selfHistory, opponent), MaxEventualRounds)

NextEventual == EventualCycleHunterLongRound

SpecEventual == InitEventual /\ [][NextEventual]_vars

(***************************************************************************)
(* A single call of strategy on histories set directly, of any two         *)
(* lengths, the way a test constructs a player and its opponent.           *)
(***************************************************************************)
\* one call that returned s (a move, or the exception it raised)
Call(s) ==
    /\ move = "none"
    /\ move' = s
    /\ UNCHANGED <<player, selfHistory, opponent>>

CallInit(hunters, ownLen, oppLen) ==
    /\ player \in hunters
    /\ selfHistory \in Histories(0, ownLen)
    /\ opponent \in {PlayerOf(h) : h \in Histories(0, oppLen)}
    /\ move = "none"

DefectorHunterCall ==
    /\ player = "DefectorHunter"
    /\ Call(DefectorHunterStrategy(selfHistory, opponent))

CooperatorHunterCall ==
    /\ player = "CooperatorHunter"
    /\ Call(CooperatorHunterStrategy(selfHistory, opponent))

AlternatorHunterCall ==
    /\ player = "AlternatorHunter"
    /\ Call(AlternatorHunterStrategy(selfHistory, opponent))

CycleHunterCall ==
    /\ player = "CycleHunter"
    /\ Call(CycleHunterStrategy(selfHistory, opponent))

EventualCycleHunterCall ==
    /\ player = "EventualCycleHunter"
    /\ Call(EventualCycleHunterStrategy(selfHistory, opponent))

MathConstantHunterCall ==
    /\ player = "MathConstantHunter"
    /\ Call(MathConstantHunterStrategy(selfHistory, opponent))

RandomHunterCall ==
    /\ player = "RandomHunter"
    /\ Call(RandomHunterStrategy(selfHistory, opponent))

\* the three whole-history hunters on every pair of short histories
InitPairs ==
    CallInit({"DefectorHunter", "CooperatorHunter", "AlternatorHunter"},
             MaxOwnLen, MaxOppLen)

NextPairs == DefectorHunterCall \/ CooperatorHunterCall \/ AlternatorHunterCall

SpecPairs == InitPairs /\ [][NextPairs]_vars

\* all seven on every own history up to just past the longest threshold,
\* paired with short opponent histories
InitTotal == CallInit(Hunters, MaxTotalOwnLen, MaxShortOppLen)

NextTotal ==
    \/ DefectorHunterCall
    \/ CooperatorHunterCall
    \/ AlternatorHunterCall
    \/ CycleHunterCall
    \/ EventualCycleHunterCall
    \/ MathConstantHunterCall
    \/ RandomHunterCall

SpecTotal == InitTotal /\ [][NextTotal]_vars

\* Own histories for the RandomHunter: every history of length n in which
\* the player changes its move at most once, and the two that alternate.
Runs(n) ==
    {[k \in 1..n |-> IF k <= a THEN m ELSE IF m = C THEN D ELSE C] :
        a \in 0..n, m \in Moves}
    \cup {[k \in 1..n |-> IF k % 2 = r THEN C ELSE D] : r \in 0..1}

\* the RandomHunter on those own histories, against every opponent history
\* of the same length
InitRandom ==
    /\ player = "RandomHunter"
    /\ \E n \in 0..MaxRandomLen :
          /\ selfHistory \in Runs(n)
          /\ opponent \in {PlayerOf(h) : h \in Histories(n, n)}
    /\ move = "none"

NextRandom == RandomHunterCall

SpecRandom == InitRandom /\ [][NextRandom]_vars

(***************************************************************************)
(* Vocabulary of the claims, stated on the histories themselves.           *)
(***************************************************************************)
\* every move of h is m
AllMoves(h, m) == \A i \in 1..Len(h) : h[i] = m

\* h is one move repeated (any length, 0 and 1 included)
OneMoveRepeated(h) == \A i, j \in 1..Len(h) : h[i] = h[j]

\* every adjacent pair of h differs: h is its first move and the other one
\* in turn
Alternates(h) ==
    \A i \in 1..Len(h) : h[i] = h[1] <=> i % 2 = 1

\* tiling the first q moves of h reproduces h
Tiles(h, q) == \A k \in 1..Len(h) : h[k] = h[((k - 1) % q) + 1]

(***************************************************************************)
(* C1  DefectorHunter and CooperatorHunter                                 *)
(***************************************************************************)
\* C1: a call of DefectorHunter.strategy returns Defect if and only if the
\* own history has at least 4 moves and every move of the opponent's history
\* is Defect; CooperatorHunter.strategy likewise with every opponent move
\* Cooperate.  Either returns Cooperate otherwise.
C1_ConstantHunters ==
    move # "none" =>
        /\ move \in Moves
        /\ player = "DefectorHunter" =>
              (move = D <=> Len(selfHistory) >= 4 /\ AllMoves(opponent.history, D))
        /\ player = "CooperatorHunter" =>
              (move = D <=> Len(selfHistory) >= 4 /\ AllMoves(opponent.history, C))

\* the DefectorHunter defects on four own moves against four defections, and
\* one Cooperate among them would be a different state
C1_Witness ==
    /\ player = "DefectorHunter"
    /\ move = D
    /\ Len(selfHistory) = 4
    /\ opponent.history = <<D, D, D, D>>

(***************************************************************************)
(* C2  AlternatorHunter                                                    *)
(***************************************************************************)
\* C2 as claimed: a call of AlternatorHunter.strategy returns Defect if and
\* only if the own history has at least 6 moves, the opponent's history has
\* at least 1 move and strictly alternates; Cooperate in every other case,
\* an empty opponent history included.
C2_AsClaimed ==
    (move # "none" /\ player = "AlternatorHunter") =>
        (move = D <=> /\ Len(selfHistory) >= 6
                      /\ Len(opponent.history) >= 1
                      /\ Alternates(opponent.history))

\* C2 amended: a call of AlternatorHunter.strategy returns Defect if and only
\* if the own history has at least 6 moves and the opponent's history
\* strictly alternates, which an opponent history of length 0 or 1 does
\* vacuously; Cooperate otherwise.
C2_Alternator ==
    (move # "none" /\ player = "AlternatorHunter") =>
        /\ move \in Moves
        /\ move = D <=> (Len(selfHistory) >= 6 /\ Alternates(opponent.history))
        /\ (Len(selfHistory) >= 6 /\ Len(opponent.history) <= 1) => move = D

\* the call on six own moves and an empty opponent history returned Defect
C2_Witness ==
    /\ player = "AlternatorHunter"
    /\ move = D
    /\ Len(selfHistory) >= 6
    /\ opponent.history = <<>>

(***************************************************************************)
(* C3, C4  CycleHunter                                                     *)
(***************************************************************************)
\* the smallest period whose tiling reproduces h (Len(h) for want of one)
MinPeriod(h) ==
    CHOOSE q \in 1..Len(h) : Tiles(h, q) /\ \A r \in 1..(q - 1) : ~Tiles(h, r)

\* what C3 says of a history h that is the tiling of its first p moves
CycleFound(h, p) ==
    /\ DetectCycle(h)
    /\ CycleHunterStrategy(selfHistory, PlayerOf(h)) = D
    /\ DetectCycleFrom(h, 0).period = MinPeriod(h)
    /\ DetectCycleFrom(h, 0).period <= p

\* C3 as claimed: for every block length p >= 2 with 2p <= n, an opponent
\* history of length n that is the tiling of its first p moves makes
\* detect_cycle return True (the strategy Defect), the search stopping at the
\* smallest period that reproduces the history, which is at most p.
C3_AsClaimed ==
    player = "CycleHunter" =>
        \A p \in 2..(Len(opponent.history) \div 2) :
            Tiles(opponent.history, p) => CycleFound(opponent.history, p)

\* C3 amended: the same for every block that is not one move repeated; the
\* period the search stops at is then at least 2.
C3_TiledBlock ==
    player = "CycleHunter" =>
        \A p \in 2..(Len(opponent.history) \div 2) :
            (Tiles(opponent.history, p) /\ ~OneMoveRepeated(opponent.history)) =>
                /\ CycleFound(opponent.history, p)
                /\ DetectCycleFrom(opponent.history, 0).period >= 2

\* the block C,D,C,D tiled to length 8: the search stops at period 2 < 4, and
\* the CycleHunter already defected in the round before
C3_Witness ==
    /\ player = "CycleHunter"
    /\ opponent.history = <<C, D, C, D, C, D, C, D>>
    /\ Tiles(opponent.history, 4)
    /\ DetectCycleFrom(opponent.history, 0).period = 2
    /\ move = D

\* C4: for an opponent history that is one move repeated (any length),
\* detect_cycle returns False and the strategy Cooperate; from length 2 on
\* the search ends at period 1 and examines no larger one.
C4_OneMoveIsNoCycle ==
    (player = "CycleHunter" /\ OneMoveRepeated(opponent.history)) =>
        /\ ~DetectCycle(opponent.history)
        /\ CycleHunterStrategy(selfHistory, opponent) = C
        /\ Len(opponent.history) >= 2 => DetectCycleFrom(opponent.history, 0).period = 1
        /\ move \in {"none", C}

\* six Cooperates: the CycleHunter has cooperated and cooperates again
C4_Witness ==
    /\ player = "CycleHunter"
    /\ opponent.history = <<C, C, C, C, C, C>>
    /\ move = C
    /\ CycleHunterStrategy(selfHistory, opponent) = C

(***************************************************************************)
(* C5  EventualCycleHunter                                                 *)
(***************************************************************************)
\* the window of the last min(15, Len(h)) moves of h is the tiling of its
\* first p moves for some p from 1 to half the window
WindowCycles(h) ==
    LET n == Len(h)
        m == IF n < 15 THEN n ELSE 15
    IN  \E p \in 1..(m \div 2) :
            \A k \in 1..m : h[n - m + k] = h[n - m + ((k - 1) % p) + 1]

\* C5: on an opponent history of fewer than 10 moves the strategy returns
\* Cooperate; on 10 or more, Cooperate if the opponent cooperated in every
\* round, and otherwise Defect if and only if the window of the last
\* min(15, length) moves is a tiling with some period from 1 to half the
\* window.
C5_EventualCycle ==
    LET oh == opponent.history
        s  == EventualCycleHunterStrategy(selfHistory, opponent)
    IN  player = "EventualCycleHunter" =>
            /\ Len(oh) < 10 => s = C
            /\ (Len(oh) >= 10 /\ AllMoves(oh, C)) => s = C
            /\ (Len(oh) >= 10 /\ ~AllMoves(oh, C)) => (s = D <=> WindowCycles(oh))

\* one Defect followed by 15 Cooperates: the hunter cooperated while the
\* Defect was in the window, and defects now that the window is all Cooperate
C5_Witness ==
    /\ player = "EventualCycleHunter"
    /\ Len(opponent.history) = 16
    /\ opponent.history[1] = D
    /\ AllMoves(LastN(opponent.history, 15), C)
    /\ move = C
    /\ EventualCycleHunterStrategy(selfHistory, opponent) = D

(***************************************************************************)
(* C6  totality                                                            *)
(***************************************************************************)
\* C6: every call of a strategy on well-formed histories, of equal length or
\* not, returns a move and raises no error.
C6_Total == move # "none" => move \in Moves

(***************************************************************************)
(* C7  MathConstantHunter                                                  *)
(***************************************************************************)
\* Cooperates of both players in the window [lo, hi) of the first n rounds
WindowCount(lo, hi) ==
    Cardinality({i \in (lo + 1)..hi : i <= Len(opponent.history) /\ opponent.history[i] = C})
    + Cardinality({i \in (lo + 1)..hi : selfHistory[i] = C})

\* |c1 / (2 * len1) - c2 / (2 * len2)| < 1/5, in integers
WithinOneFifth(c1, len1, c2, len2) ==
    LET d == c1 * len2 - c2 * len1
    IN  5 * (IF d < 0 THEN -d ELSE d) < 2 * len1 * len2

\* C7: the strategy returns Defect if and only if the own history has n >= 8
\* moves, the opponent has cooperated and defected, and the ratio of
\* Cooperates in [0, n/2) is strictly within 1/5 of the ratio in
\* [n/4, 3n/4) and of the ratio in [n/2, n); otherwise Cooperate.
C7_MathConstant ==
    LET n == Len(selfHistory)
        c1 == WindowCount(0, n \div 2)
        c2 == WindowCount(n \div 4, (3 * n) \div 4)
        c3 == WindowCount(n \div 2, n)
        len1 == n \div 2
        len2 == (3 * n) \div 4 - n \div 4
        len3 == n - n \div 2
    IN  player = "MathConstantHunter" =>
            (MathConstantHunterStrategy(selfHistory, opponent) = D
                <=> /\ n >= 8
                    /\ \E i \in 1..Len(opponent.history) : opponent.history[i] = C
                    /\ \E i \in 1..Len(opponent.history) : opponent.history[i] = D
                    /\ WithinOneFifth(c1, len1, c2, len2)
                    /\ WithinOneFifth(c1, len1, c3, len3))

(***************************************************************************)
(* C8  RandomHunter                                                        *)
(***************************************************************************)
\* own moves m in rounds 0..n-2
OwnCount(m) ==
    Cardinality({i \in 1..(Len(selfHistory) - 1) : selfHistory[i] = m})

\* own moves m in rounds 0..n-2 that the opponent answered with m
Answered(m) ==
    Cardinality({i \in 1..(Len(selfHistory) - 1) :
                    selfHistory[i] = m /\ opponent.history[i + 1] = m})

\* count / total lies strictly between 1/4 and 3/4
StrictlyWithinQuarter(count, total) == total < 4 * count /\ 4 * count < 3 * total

\* C8: on histories of equal length n the call returns Defect if and only if
\* n > 10, cC > 5 or cD > 5, and each ratio whose guard holds (countCC / cC
\* when cC > 5, countDD / cD when cD > 5) lies strictly within 1/4 of 1/2;
\* otherwise Cooperate.
C8_RandomHunter ==
    (move # "none" /\ player = "RandomHunter"
        /\ Len(selfHistory) = Len(opponent.history)) =>
        /\ move \in Moves
        /\ move = D <=>
              /\ Len(selfHistory) > 10
              /\ OwnCount(C) > 5 \/ OwnCount(D) > 5
              /\ OwnCount(C) > 5 => StrictlyWithinQuarter(Answered(C), OwnCount(C))
              /\ OwnCount(D) > 5 => StrictlyWithinQuarter(Answered(D), OwnCount(D))

\* both guards hold, both ratios are near one half, and the call defected
C8_Witness ==
    /\ player = "RandomHunter"
    /\ move = D
    /\ OwnCount(C) > 5
    /\ OwnCount(D) > 5
    /\ StrictlyWithinQuarter(Answered(C), OwnCount(C))
    /\ StrictlyWithinQuarter(Answered(D), OwnCount(D))

(***************************************************************************)
(* C9  minimum evidence                                                    *)
(***************************************************************************)
\* C9: in a match every hunter returns Cooperate below its threshold
\* (DefectorHunter and CooperatorHunter on fewer than 4 own moves,
\* AlternatorHunter fewer than 6, MathConstantHunter fewer than 8,
\* EventualCycleHunter on fewer than 10 opponent moves, RandomHunter on at
\* most 10 own moves), and every hunter, the CycleHunter included, returns
\* Cooperate in each of the first 4 rounds.
C9_MinimumEvidence ==
    LET n == Len(selfHistory)
        s == Strategy(player, selfHistory, opponent)
    IN  /\ (player \in {"DefectorHunter", "CooperatorHunter"} /\ n < 4) => s = C
        /\ (player = "AlternatorHunter" /\ n < 6) => s = C
        /\ (player = "MathConstantHunter" /\ n < 8) => s = C
        /\ (player = "EventualCycleHunter" /\ Len(opponent.history) < 10) => s = C
        /\ (player = "RandomHunter" /\ n <= 10) => s = C
        /\ n <= 3 => s = C
        /\ \A i \in 1..n : i <= 4 => selfHistory[i] = C

\* after four rounds of Cooperate the CycleHunter defects in the fifth
C9_Witness ==
    /\ player = "CycleHunter"
    /\ selfHistory = <<C, C, C, C>>
    /\ move = C
    /\ Strategy(player, selfHistory, opponent) = D

(***************************************************************************)
(* C10  irreversibility                                                    *)
(***************************************************************************)
\* the opponent has played m
HasPlayed(h, m) == \E i \in 1..Len(h) : h[i] = m

\* the opponent has played one move twice in a row
HasRepeated(h) == \E i \in 1..(Len(h) - 1) : h[i] = h[i + 1]

\* C10: in a match, once the opponent has played a Cooperate every later
\* round of the DefectorHunter returns Cooperate; once a Defect, every later
\* round of the CooperatorHunter; once the same move twice in a row, every
\* later round of the AlternatorHunter.  The broken trigger stays broken.
C10_Irreversible ==
    [][ /\ (player = "DefectorHunter" /\ HasPlayed(opponent.history, C)) =>
              (move' = C /\ HasPlayed(opponent'.history, C))
        /\ (player = "CooperatorHunter" /\ HasPlayed(opponent.history, D)) =>
              (move' = C /\ HasPlayed(opponent'.history, D))
        /\ (player = "AlternatorHunter" /\ HasRepeated(opponent.history)) =>
              (move' = C /\ HasRepeated(opponent'.history))
      ]_vars

\* one Cooperate and then seven Defects: the DefectorHunter still cooperates
C10_Witness ==
    /\ player = "DefectorHunter"
    /\ opponent.history = <<C, D, D, D, D, D, D, D>>
    /\ AllMoves(selfHistory, C)
    /\ move = C

=============================================================================
